---- MODULE Spec2Model ----
(***************************************************************************)
(* A model of LinearElasticitySolver (src/LinearElasticitySolver.py):      *)
(* construction from the case settings, the assembly of the weak form F    *)
(* and of the Dirichlet constraints in update_boundary_conditions, and the *)
(* static / modal dispatch of solve().                                     *)
(*                                                                         *)
(* Conventions.  A Python value that may be None is a sequence: <<>> is    *)
(* None and <<x>> is the value x.  Poisson's ratio is given in tenths      *)
(* (nu10 = 3 is nu = 0.3) and a real number is a fraction [num, den].      *)
(* A facet of the mesh boundary has unit area, so the area of a marked     *)
(* boundary subset is its number of facets.                                *)
(***************************************************************************)
EXTENDS Integers, Sequences, FiniteSets

VARIABLES
    settings,                  \* case_settings, as handed to __init__
    body_source,               \* self.body_source
    temperature_distribution,  \* self.temperature_distribution: "unset", "None" or "field"
    solving_modal,             \* self.solving_modal
    pc,                        \* position of the run
    idx,                       \* position of the loop over boundary_conditions.items()
    boundary_facets,           \* the FacetFunction: facet -> mark
    integrals_F,               \* the list integrals_F
    bcs,                       \* the list bcs of DirichletBC
    a,                         \* the bilinear term a, <<>> before it is built
    F,                         \* the returned form, <<>> before the return
    error,                     \* the exception that ended the run
    reads,                     \* the optional settings read so far
    engine,                    \* the solves requested from the engine, in order
    u,                         \* what solve() returned, <<>> before
    lame                       \* the Lame parameters computed from the material

vars == <<settings, body_source, temperature_distribution, solving_modal, pc, idx,
          boundary_facets, integrals_F, bcs, a, F, error, reads, engine, u, lame>>

-----------------------------------------------------------------------------
(* Bounds of the model *)

MaxBC == 2        \* longest boundary-condition list
NumFacets == 2    \* boundary facets of the mesh

Facets == 1..NumFacets

None == <<>>
Some(x) == <<x>>

NoError == [kind |-> "none", type |-> ""]
Raise(kind, type) == [kind |-> kind, type |-> type]

-----------------------------------------------------------------------------
(* Inputs: the case settings *)

Dimensions == {2, 3}

\* (E, nu) pairs of the runs: a valid steel-like material, a zero modulus, nu = 0.5
Materials == {[E |-> 2, nu10 |-> 3], [E |-> 0, nu10 |-> 3], [E |-> 2, nu10 |-> 5]}

\* the ranges over which the Lame parameters are evaluated on their own
ElasticModuli == -2 .. 3
PoissonTenths == -12 .. 7

\* 'temperature_distribution' in case_settings: key absent, key present with None,
\* key present with a field
TemperatureSettings == {"absent", "None", "field"}

BodySettings(dim) == {None, Some([i \in 1..dim |-> IF i = dim THEN -1 ELSE 0])}

BC(type, id, boundary, isExpr, axes, magnitude, hasDirection, direction) ==
    [type |-> type, boundary_id |-> id, boundary |-> boundary, isExpr |-> isExpr,
     axes |-> axes, magnitude |-> magnitude, hasDirection |-> hasDirection,
     direction |-> direction]

\* where a load may act: (boundary_id, facets selected by bc['boundary'])
LoadRegions == {<<2, {2}>>, <<2, {1, 2}>>, <<1, {}>>}
\* where a displacement may be prescribed
FixedRegions == {<<1, {1}>>, <<2, {1, 2}>>}

\* bc['value'] of a Dirichlet entry: a Constant, or a list with one component per
\* axis, None for an axis that is left free
DirichletEntries ==
    {BC("Dirichlet", r[1], r[2], TRUE, <<>>, 0, FALSE, <<>>) : r \in FixedRegions}
    \cup {BC("displacement", r[1], r[2], FALSE, ax, 0, FALSE, <<>>) :
            r \in FixedRegions, ax \in {<<Some(0), None>>, <<None, Some(1)>>}}

ForceEntries ==
    {BC("force", r[1], r[2], FALSE, <<>>, 6, d[1], d[2]) :
        r \in LoadRegions, d \in {<<FALSE, <<>>>>, <<TRUE, <<1, 0>>>>}}
    \cup {BC("force", 2, {2}, FALSE, <<>>, 6, TRUE, <<>>)}

StressEntries ==
    {BC("stress", r[1], r[2], FALSE, <<>>, 5, FALSE, <<>>) :
        r \in {<<2, {2}>>, <<2, {1, 2}>>}}
    \cup {BC("Neumann", 2, {2}, FALSE, <<>>, 5, TRUE, <<0, 1>>)}

OtherEntries ==
    {BC(t, 2, {2}, FALSE, <<>>, 0, FALSE, <<>>) : t \in {"symmetry", "pressure"}}

BCEntries == DirichletEntries \cup ForceEntries \cup StressEntries \cup OtherEntries

\* self.boundary_conditions, an ordered dict: its values in the order of items()
BCLists == UNION {[1..n -> BCEntries] : n \in 0..MaxBC}

-----------------------------------------------------------------------------
(* Python truth values *)

\* `if self.body_source:` on the raw setting (line 29): None is false, a tuple is true
TruthySetting(x) == x # None

\* a truth value that follows the value of the Constant
TruthyNonZero(c) == \E i \in DOMAIN c.value : c.value[i] # 0

\* `if self.body_source:` on a dolfin Constant (line 106): a UFL expression is
\* always true, whatever its value
TruthyConstant(c) == TRUE

\* `if disp:` (line 137): None and 0 are both false
TruthyComponent(disp) == disp # None /\ disp[1] # 0

\* `'direction' in bc and bc['direction']` (lines 147, 153)
HasDirection(bc) == bc.hasDirection /\ bc.direction # <<>>

-----------------------------------------------------------------------------
(* Material: mu = E/(2(1+nu)), lmbda = E nu/((1+nu)(1-2nu)), lines 99-102 *)

Frac(n, d) == [num |-> n, den |-> d]
Positive(q) == q.num * q.den > 0
Finite(q) == q.den # 0

lame_parameters(E, nu10) ==
    LET muDen == 2 * (10 + nu10)
        lmbdaDen == (10 + nu10) * (10 - 2 * nu10)
    IN  IF muDen = 0 \/ lmbdaDen = 0
        THEN [defined |-> FALSE, error |-> Raise("ZeroDivisionError", ""),
              mu |-> Frac(0, 0), lmbda |-> Frac(0, 0)]
        ELSE [defined |-> TRUE, error |-> NoError, mu |-> Frac(10 * E, muDen),
              lmbda |-> Frac(10 * E * nu10, lmbdaDen)]

NoLame == [defined |-> FALSE, error |-> NoError, mu |-> Frac(0, 0), lmbda |-> Frac(0, 0)]

-----------------------------------------------------------------------------
(* Construction, lines 25-42 *)

Constant(v) == [kind |-> "Constant", value |-> v]

\* SolverBase.translate_value: a tuple becomes a Constant of that value
translate_value(v) == Constant(v)

\* lines 32-35: the zero vector, of three components in 3D and of two otherwise
DefaultBodySource(dimension) ==
    IF dimension = 3 THEN Constant(<<0, 0, 0>>) ELSE Constant(<<0, 0>>)

InitBodySource(s) ==
    IF TruthySetting(s.body_source)
    THEN translate_value(s.body_source[1])
    ELSE DefaultBodySource(s.dimension)

\* the attribute is assigned only when the key is in case_settings
InitTemperature(s) ==
    IF s.temperature # "absent" THEN s.temperature ELSE "unset"

NoBody == Constant(<<>>)

-----------------------------------------------------------------------------
(* update_boundary_conditions, lines 93-170 *)

Term(kind, id, g, dir) == [kind |-> kind, id |-> id, g |-> g, dir |-> dir]

\* a = inner(self.sigma(u), grad(v))*dx
StiffnessTerm == Term("stiffness", 0, Frac(0, 1), "none")
\* inner(self.body_source, v)*dx
BodyTerm == Term("body", 0, Frac(0, 1), "none")
\* inner(elasticity * grad(T - Constant(T_ref)), v)*dx
ThermalTerm == Term("thermal", 0, Frac(0, 1), "none")

\* a body-load term that is left out when the body source is the zero vector
BodyLoadTermsIfNonZero(b) == IF TruthyNonZero(b) THEN <<BodyTerm>> ELSE <<>>
\* lines 105-107
BodyLoadTerms(b) == IF TruthyConstant(b) THEN <<BodyTerm>> ELSE <<>>

\* lines 110-113, for an attribute that is set
ThermalTerms(t) == IF t = "field" THEN <<ThermalTerm>> ELSE <<>>
ThermalReads(t) ==
    IF t = "field" THEN {"temperature_distribution", "reference_temperature"} ELSE {}

\* lines 116-120: every entry marks its facets with its id, in list order, a later
\* mark replacing an earlier one
RECURSIVE MarkFrom(_, _, _)
MarkFrom(marks, list, k) ==
    IF k > Len(list) THEN marks
    ELSE MarkFrom([f \in DOMAIN marks |->
                      IF f \in list[k].boundary THEN list[k].boundary_id ELSE marks[f]],
                  list, k + 1)

Unmarked == [f \in Facets |-> 0]
MarkAll(list) == MarkFrom(Unmarked, list, 1)

\* assemble(Constant(1)*ds(boundary_id)): the area that carries the mark
Area(marks, id) == Cardinality({f \in DOMAIN marks : marks[f] = id})

DirichletBC(sub, value, id) == [sub |-> sub, value |-> value, boundary_id |-> id]

\* lines 135-140: one DirichletBC(V.sub(axis_i), ...) per component that is true
RECURSIVE AxisConstraints(_, _, _)
AxisConstraints(axes, axis_i, id) ==
    IF axis_i >= Len(axes) THEN <<>>
    ELSE (IF TruthyComponent(axes[axis_i + 1])
          THEN <<DirichletBC(axis_i, axes[axis_i + 1][1], id)>>
          ELSE <<>>)
         \o AxisConstraints(axes, axis_i + 1, id)

\* lines 130-140; sub = -1 is the whole space V
DirichletConstraints(bc) ==
    IF bc.isExpr
    THEN <<DirichletBC(-1, 0, bc.boundary_id)>>
    ELSE AxisConstraints(bc.axes, 0, bc.boundary_id)

\* lines 147-150 and 153-156: the local direction_vector
direction_vector(bc) == IF HasDirection(bc) THEN "supplied" ELSE "normal"

\* line 151: dot(g, v)*ds(i), in which direction_vector does not occur
ForceTerm(bc, area) == Term("force", bc.boundary_id, Frac(bc.magnitude, area), "none")

\* line 158: dot(g, v)*ds(i) with g = bc['value']
StressTerm(bc) == Term("stress", bc.boundary_id, Frac(bc.magnitude, 1), "none")

DirichletTypes == {"Dirichlet", "displacement"}
StressTypes == {"stress", "Neumann"}
SupportedTypes == DirichletTypes \cup {"force"} \cup StressTypes

\* a loop that skips an entry of type 'symmetry' instead of raising
LoopStepIgnoringSymmetry(bc, marks) ==
    IF bc.type \in DirichletTypes
    THEN [error |-> NoError, terms |-> <<>>, constraints |-> DirichletConstraints(bc)]
    ELSE IF bc.type = "force"
    THEN IF Area(marks, bc.boundary_id) = 0
         THEN [error |-> Raise("ZeroDivisionError", ""), terms |-> <<>>,
               constraints |-> <<>>]
         ELSE [error |-> NoError,
               terms |-> <<ForceTerm(bc, Area(marks, bc.boundary_id))>>,
               constraints |-> <<>>]
    ELSE IF bc.type \in StressTypes
    THEN [error |-> NoError, terms |-> <<StressTerm(bc)>>, constraints |-> <<>>]
    ELSE IF bc.type = "symmetry"
    THEN [error |-> NoError, terms |-> <<>>, constraints |-> <<>>]
    ELSE [error |-> Raise("SolverError", bc.type), terms |-> <<>>, constraints |-> <<>>]

\* one pass of the loop of lines 128-162 over entry bc:
\* what it appends to integrals_F and to bcs, and the exception it raises.
\* bc['value'] of a force entry is a Python number and assemble() returns a Python
\* float, so line 146 raises ZeroDivisionError on an area of 0.0
LoopStep(bc, marks) ==
    IF bc.type \in DirichletTypes
    THEN [error |-> NoError, terms |-> <<>>, constraints |-> DirichletConstraints(bc)]
    ELSE IF bc.type = "force"
    THEN IF Area(marks, bc.boundary_id) = 0
         THEN [error |-> Raise("ZeroDivisionError", ""), terms |-> <<>>,
               constraints |-> <<>>]
         ELSE [error |-> NoError,
               terms |-> <<ForceTerm(bc, Area(marks, bc.boundary_id))>>,
               constraints |-> <<>>]
    ELSE IF bc.type \in StressTypes
    THEN [error |-> NoError, terms |-> <<StressTerm(bc)>>, constraints |-> <<>>]
    ELSE [error |-> Raise("SolverError", bc.type), terms |-> <<>>, constraints |-> <<>>]

-----------------------------------------------------------------------------
(* The run: construction, then solve() *)

Init ==
    /\ \E d \in Dimensions, t \in TemperatureSettings, m \in Materials, l \in BCLists :
          \E b \in BodySettings(d) :
             settings = [dimension |-> d, body_source |-> b, temperature |-> t,
                         material |-> m, boundary_conditions |-> l]
    /\ body_source = NoBody
    /\ temperature_distribution = "unset"
    /\ solving_modal = FALSE
    /\ pc = "new"
    /\ idx = 0
    /\ boundary_facets = Unmarked
    /\ integrals_F = <<>>
    /\ bcs = <<>>
    /\ a = <<>>
    /\ F = <<>>
    /\ error = NoError
    /\ reads = {}
    /\ engine = <<>>
    /\ u = <<>>
    /\ lame = NoLame

\* __init__, lines 25-42
solver_init ==
    /\ pc = "new"
    /\ body_source' = InitBodySource(settings)
    /\ temperature_distribution' = InitTemperature(settings)
    /\ solving_modal' = FALSE
    /\ pc' = "ready"
    /\ UNCHANGED <<settings, idx, boundary_facets, integrals_F, bcs, a, F, error, reads,
                   engine, u, lame>>

\* the caller selects the modal mode: the attribute of line 42, tested at line 175
SetSolvingModal ==
    /\ pc = "ready"
    /\ ~solving_modal
    /\ solving_modal' = TRUE
    /\ UNCHANGED <<settings, body_source, temperature_distribution, pc, idx,
                   boundary_facets, integrals_F, bcs, a, F, error, reads, engine, u, lame>>

\* solve() enters solve_transient (line 173), which calls
\* update_boundary_conditions: lines 93-127, up to the loop over the entries
update_boundary_conditions_begin ==
    /\ pc = "ready"
    /\ LET lp == lame_parameters(settings.material.E, settings.material.nu10)
       IN  /\ lame' = lp
           /\ IF lp.error # NoError
              THEN /\ pc' = "failed"
                   /\ error' = lp.error
                   /\ UNCHANGED <<a, integrals_F, reads, boundary_facets, idx>>
              ELSE IF temperature_distribution = "unset"
              THEN /\ pc' = "failed"
                   /\ error' = Raise("AttributeError", "temperature_distribution")
                   /\ a' = <<StiffnessTerm>>
                   /\ integrals_F' = BodyLoadTerms(body_source)
                   /\ UNCHANGED <<reads, boundary_facets, idx>>
              ELSE /\ pc' = "loop"
                   /\ a' = <<StiffnessTerm>>
                   /\ integrals_F' = BodyLoadTerms(body_source)
                                       \o ThermalTerms(temperature_distribution)
                   /\ reads' = reads \cup ThermalReads(temperature_distribution)
                   /\ boundary_facets' = MarkAll(settings.boundary_conditions)
                   /\ idx' = 1
                   /\ error' = error
    /\ UNCHANGED <<settings, body_source, temperature_distribution, solving_modal, bcs, F,
                   engine, u>>

\* one pass of the loop of lines 128-162
update_boundary_conditions_loop ==
    /\ pc = "loop"
    /\ idx <= Len(settings.boundary_conditions)
    /\ LET step == LoopStep(settings.boundary_conditions[idx], boundary_facets)
       IN  /\ integrals_F' = integrals_F \o step.terms
           /\ bcs' = bcs \o step.constraints
           /\ error' = step.error
           /\ IF step.error # NoError
              THEN pc' = "failed" /\ idx' = idx
              ELSE pc' = "loop" /\ idx' = idx + 1
    /\ UNCHANGED <<settings, body_source, temperature_distribution, solving_modal,
                   boundary_facets, a, F, reads, engine, u, lame>>

\* lines 165-170: F = a, then F += item for every item, and the return
SumForm(stiffness, items) == stiffness \o items

update_boundary_conditions_return ==
    /\ pc = "loop"
    /\ idx > Len(settings.boundary_conditions)
    /\ F' = SumForm(a, integrals_F)
    /\ pc' = "assembled"
    /\ UNCHANGED <<settings, body_source, temperature_distribution, solving_modal, idx,
                   boundary_facets, integrals_F, bcs, a, error, reads, engine, u, lame>>

\* solve_transient hands the returned F and bcs to solve_static, lines 209-220
solve_static ==
    /\ pc = "assembled"
    /\ engine' = Append(engine, [op |-> "static", F |-> F, bcs |-> bcs])
    /\ pc' = "solved"
    /\ UNCHANGED <<settings, body_source, temperature_distribution, solving_modal, idx,
                   boundary_facets, integrals_F, bcs, a, F, error, reads, u, lame>>

\* the names bound in the body of solve(), lines 172-178
SolveLocals == {"self", "u"}

\* solve_modal, lines 180-207: the eigenvalue r is printed, the mode shape ev returned
solve_modal(form, constraints) == [ev |-> "mode shape"]

\* lines 175-178: the modal branch reads the names F and bcs
solve_dispatch ==
    /\ pc = "solved"
    /\ IF solving_modal
       THEN IF {"F", "bcs"} \subseteq SolveLocals
            THEN /\ engine' = Append(engine, [op |-> "modal", F |-> F, bcs |-> bcs])
                 /\ u' = Some("displacement")
                 /\ pc' = "done"
                 /\ error' = error
            ELSE /\ error' = Raise("NameError", "F")
                 /\ pc' = "failed"
                 /\ UNCHANGED <<engine, u>>
       ELSE /\ u' = Some("displacement")
            /\ pc' = "done"
            /\ UNCHANGED <<engine, error>>
    /\ UNCHANGED <<settings, body_source, temperature_distribution, solving_modal, idx,
                   boundary_facets, integrals_F, bcs, a, F, reads, lame>>

Next ==
    \/ solver_init
    \/ SetSolvingModal
    \/ update_boundary_conditions_begin
    \/ update_boundary_conditions_loop
    \/ update_boundary_conditions_return
    \/ solve_static
    \/ solve_dispatch

Spec == Init /\ [][Next]_vars

-----------------------------------------------------------------------------
(* The Lame parameters on their own, over a range of materials *)

MaterialSettings ==
    {[dimension |-> 3, body_source |-> None, temperature |-> "None",
      material |-> [E |-> e, nu10 |-> n], boundary_conditions |-> <<>>] :
        e \in ElasticModuli, n \in PoissonTenths}

InitMaterial ==
    /\ settings \in MaterialSettings
    /\ body_source = NoBody
    /\ temperature_distribution = "unset"
    /\ solving_modal = FALSE
    /\ pc = "material"
    /\ idx = 0
    /\ boundary_facets = Unmarked
    /\ integrals_F = <<>>
    /\ bcs = <<>>
    /\ a = <<>>
    /\ F = <<>>
    /\ error = NoError
    /\ reads = {}
    /\ engine = <<>>
    /\ u = <<>>
    /\ lame = NoLame

\* lines 99-102 (the same four lines as 72-75 of sigma)
EvalLame ==
    /\ pc = "material"
    /\ lame' = lame_parameters(settings.material.E, settings.material.nu10)
    /\ error' = lame'.error
    /\ pc' = "material done"
    /\ UNCHANGED <<settings, body_source, temperature_distribution, solving_modal, idx,
                   boundary_facets, integrals_F, bcs, a, F, reads, engine, u>>

NextMaterial == EvalLame

SpecMaterial == InitMaterial /\ [][NextMaterial]_vars

-----------------------------------------------------------------------------
(* Vocabulary of the properties *)

BCList == settings.boundary_conditions
Returned == {"assembled", "solved", "done"}
Ended == Returned \cup {"failed"}
LoopReached == pc = "loop" \/ pc \in Returned \/ (pc = "failed" /\ idx >= 1)

Unsupported(bc) == bc.type \notin SupportedTypes
FirstUnsupported(list) ==
    IF \E k \in DOMAIN list : Unsupported(list[k])
    THEN CHOOSE k \in DOMAIN list :
            Unsupported(list[k]) /\ \A j \in 1..(k - 1) : ~Unsupported(list[j])
    ELSE 0

DuplicateIds(list) ==
    \E j, k \in DOMAIN list : j # k /\ list[j].boundary_id = list[k].boundary_id

ValidMaterial(m) == m.E > 0 /\ m.nu10 > -10 /\ m.nu10 < 5

\* the constraints the entries 1..n are to register: the whole space for an
\* expression, else one per axis whose component is not None
RECURSIVE PresentAxes(_, _, _)
PresentAxes(axes, axis_i, id) ==
    IF axis_i >= Len(axes) THEN <<>>
    ELSE (IF axes[axis_i + 1] # None
          THEN <<DirichletBC(axis_i, axes[axis_i + 1][1], id)>>
          ELSE <<>>)
         \o PresentAxes(axes, axis_i + 1, id)

RECURSIVE PresentConstraints(_, _)
PresentConstraints(list, n) ==
    IF n = 0 THEN <<>>
    ELSE PresentConstraints(list, n - 1)
         \o (IF list[n].type \notin DirichletTypes THEN <<>>
             ELSE IF list[n].isExpr THEN <<DirichletBC(-1, 0, list[n].boundary_id)>>
             ELSE PresentAxes(list[n].axes, 0, list[n].boundary_id))

\* the runs in which the material and the loads raise nothing
Nominal == ValidMaterial(settings.material) /\ settings.temperature # "absent"

Kinds(form) == [k \in DOMAIN form |-> form[k].kind]

\* the kinds of the natural terms of the entries 1..n, in list order
RECURSIVE NaturalKinds(_, _)
NaturalKinds(list, n) ==
    IF n = 0 THEN <<>>
    ELSE NaturalKinds(list, n - 1)
         \o (IF list[n].type = "force" THEN <<"force">>
             ELSE IF list[n].type \in StressTypes THEN <<"stress">> ELSE <<>>)

\* the kinds of integrals_F once the loads and the entries 1..n are in
LoadKinds(n) ==
    <<"body">>
    \o (IF settings.temperature = "field" THEN <<"thermal">> ELSE <<>>)
    \o NaturalKinds(BCList, n)

Count(form, kind) == Cardinality({k \in DOMAIN form : form[k].kind = kind})

-----------------------------------------------------------------------------
(* Properties *)

\* C1: for a per-axis displacement value, one constraint is registered for each
\* axis whose component is not None, a component 0 included, bound to sub-space k
\* and to the entry's boundary_id, and none for the omitted axes: the constraint
\* set that is returned is the one the non-None components describe.
C1_OneConstraintPerPresentAxis ==
    (Nominal /\ pc \in Returned) => bcs = PresentConstraints(BCList, Len(BCList))

\* C2 as stated: a list with an entry of an unsupported type makes the run fail
\* with the error that names that type, whatever precedes the entry (stated for
\* the runs in which the material and the loads raise nothing).
C2_AlwaysUnsupportedTypeError ==
    (Nominal /\ FirstUnsupported(BCList) # 0 /\ pc \in Ended)
        => error = Raise("SolverError", BCList[FirstUnsupported(BCList)].type)

\* C2 as amended: with an entry of an unsupported type in the list the run never
\* returns a form or a constraint set and requests no solve; the loop never goes
\* past the first such entry, and when it reaches it the run fails with the
\* error naming that entry's type; a SolverError always names it.
C2_UnsupportedTypeNeverAssembled ==
    LET k == FirstUnsupported(BCList)
    IN  k # 0 =>
            /\ pc \notin Returned
            /\ F = <<>> /\ engine = <<>> /\ u = <<>>
            /\ idx <= k
            /\ (pc = "failed" /\ idx = k) => error = Raise("SolverError", BCList[k].type)
            /\ error.kind = "SolverError" => (idx = k /\ error.type = BCList[k].type)
            /\ (pc = "failed" /\ idx = k) => Kinds(integrals_F) = LoadKinds(k - 1)

\* C2, witness: a 'symmetry' entry in second place has been rejected by name
C2_Witness ==
    /\ pc = "failed"
    /\ idx = 2
    /\ BCList[2].type = "symmetry"
    /\ BCList[1].type = "stress"
    /\ error = Raise("SolverError", "symmetry")
    /\ Count(integrals_F, "stress") = 1

\* C3: a force entry uses g = F_n / A when the area A of its boundary subset is
\* positive, and when A <= 0 the run fails with DegenerateBoundaryError and no
\* traction term is appended.
C3_DegenerateBoundaryError ==
    /\ (Nominal /\ pc = "loop" /\ idx > 1 /\ BCList[idx - 1].type = "force")
         => LET t == integrals_F[Len(integrals_F)]
                A == Area(boundary_facets, BCList[idx - 1].boundary_id)
            IN  A > 0 /\ t.kind = "force" /\ t.g = Frac(BCList[idx - 1].magnitude, A)
    /\ (Nominal /\ pc = "failed" /\ idx \in DOMAIN BCList /\ BCList[idx].type = "force"
            /\ Area(boundary_facets, BCList[idx].boundary_id) <= 0)
         => error.kind = "DegenerateBoundaryError"

\* C4: the term appended for a force entry is g times a direction, the supplied
\* direction when one is given and not empty and the boundary normal otherwise.
C4_ForceTermHasDirection ==
    (Nominal /\ pc = "loop" /\ idx > 1 /\ BCList[idx - 1].type = "force")
        => integrals_F[Len(integrals_F)].dir = direction_vector(BCList[idx - 1])

\* C5: two entries with the same boundary_id make the run fail with
\* DegenerateBoundaryError before any mark is overwritten and before any solve;
\* with unique ids every entry's facets carry that entry's id after the marking.
C5_DuplicateIdRejected ==
    /\ (Nominal /\ DuplicateIds(BCList) /\ pc \notin {"new", "ready"})
         => (pc = "failed" /\ idx = 0 /\ engine = <<>>
             /\ error.kind = "DegenerateBoundaryError")
    /\ (Nominal /\ ~DuplicateIds(BCList) /\ pc \in Returned)
         => \A k \in DOMAIN BCList : \A f \in BCList[k].boundary \cap Facets :
                boundary_facets[f] = BCList[k].boundary_id

\* C6: in modal mode solve() hands the assembled F and the constraints to the
\* modal step, which returns the eigenvalue with its mode shape; in static mode
\* the modal step never runs; the mode does not change during a solve.
C6_ModalGetsAssembledForm ==
    /\ (Nominal /\ solving_modal /\ Len(engine) >= 1 /\ pc \in {"done", "failed"})
         => (/\ \E k \in DOMAIN engine :
                    engine[k] = [op |-> "modal", F |-> F, bcs |-> bcs]
             /\ error.kind # "NameError"
             /\ "eigenvalue" \in DOMAIN solve_modal(F, bcs))
    /\ ~solving_modal => \A k \in DOMAIN engine : engine[k].op # "modal"

\* C7: the Lame parameters fail with InvalidMaterialError for nu outside
\* (-1, 0.5) or E <= 0, and are mu > 0 and a finite lambda for every other input.
C7_InvalidMaterialRejected ==
    pc = "material done" =>
        IF ValidMaterial(settings.material)
        THEN lame.defined /\ Positive(lame.mu) /\ Finite(lame.lmbda)
        ELSE lame.error.kind = "InvalidMaterialError"

\* the form the contributions add up to, in their fixed order
CompleteKinds == <<"stiffness">> \o LoadKinds(Len(BCList))

DegenerateForce(list) ==
    \E k \in DOMAIN list :
        list[k].type = "force" /\ Area(MarkAll(list), list[k].boundary_id) = 0

ValidConfiguration ==
    /\ ValidMaterial(settings.material)
    /\ FirstUnsupported(BCList) = 0
    /\ ~DuplicateIds(BCList)
    /\ ~DegenerateForce(BCList)

\* C8: a form is handed to a solve only when complete, its terms in the fixed
\* order; and every configuration error (material, unsupported type, degenerate or
\* duplicate boundary) is raised before any solve, nothing being returned.
C8_SolveOnlyCompleteAndValid ==
    /\ \A k \in DOMAIN engine : Kinds(engine[k].F) = CompleteKinds
    /\ engine # <<>> => ValidConfiguration
    /\ (pc = "failed" /\ error.kind # "NameError")
         => (F = <<>> /\ engine = <<>> /\ u = <<>>)

\* C9: without a body source in the settings the solver's body source is the zero
\* vector of the problem dimension (3 components in 3D, 2 otherwise), and every
\* form that is returned holds the body-load term right after the stiffness term.
C9_BodyLoadAlwaysPresent ==
    /\ (pc # "new" /\ settings.body_source = None)
         => (/\ body_source.kind = "Constant"
             /\ Len(body_source.value) = (IF settings.dimension = 3 THEN 3 ELSE 2)
             /\ Len(body_source.value) = settings.dimension
             /\ \A i \in DOMAIN body_source.value : body_source.value[i] = 0)
    /\ (pc \in Returned \/ F # <<>>)
         => (Len(F) >= 2 /\ F[1] = StiffnessTerm /\ F[2] = BodyTerm
             /\ Count(F, "body") = 1)

\* C9, witness: a form was returned for the zero default and a list without
\* force or stress entries, and it is the stiffness and the body-load term
C9_Witness ==
    /\ pc = "assembled"
    /\ settings.body_source = None
    /\ settings.dimension = 3
    /\ body_source = Constant(<<0, 0, 0>>)
    /\ Len(BCList) = 2
    /\ \A k \in DOMAIN BCList : BCList[k].type \in DirichletTypes
    /\ F = <<StiffnessTerm, BodyTerm>>

\* C10: the thermal term is appended exactly when a temperature distribution was
\* supplied: then once, after the body-load term, the reference temperature being
\* read; without one the assembly completes without error, appends no thermal
\* term and reads neither the distribution nor the reference temperature.
C10_ThermalIffSupplied ==
    /\ LoopReached =>
         IF settings.temperature = "field"
         THEN /\ Count(integrals_F, "thermal") = 1
              /\ integrals_F[2].kind = "thermal"
              /\ "reference_temperature" \in reads
         ELSE Count(integrals_F, "thermal") = 0 /\ reads = {}
    /\ (settings.temperature # "field" /\ ValidMaterial(settings.material)
            /\ pc = "failed")
         => idx >= 1

====
